---- MODULE Spec2Model ----
(***************************************************************************)
(* A model of object-template (lib/string.js, lib/index.js, lib/regexes.js) *)
(* A JavaScript string is a sequence of one-character strings.  A          *)
(* JavaScript value is a tagged tuple: <<"str", chars>>, <<"num", n>>,     *)
(* <<"bool", b>>, <<"null">>, <<"undef">>, <<"nan">>, <<"obj", f>> with f  *)
(* a function from keys (character sequences) to values, <<"arr", seq>>.   *)
(* A thrown Error is <<"err", message prefix, detail>>.  Numbers are       *)
(* integers.  Object keys are iterated in lexicographic order: the inputs  *)
(* are the objects whose keys were inserted in that order.                 *)
(***************************************************************************)
EXTENDS Integers, Sequences, FiniteSets, TLC

----------------------------------------------------------------------------
(* Characters *)

DigitSeq == <<"0", "1", "2", "3", "4", "5", "6", "7", "8", "9">>

Digits == {DigitSeq[i] : i \in 1..10}

Letters ==
  {"a", "b", "c", "d", "e", "f", "g", "h", "i", "j", "k", "l", "m", "n", "o",
   "p", "q", "r", "s", "t", "u", "v", "w", "x", "y", "z", "F", "J", "O"}

\* \w of the regular expressions
WordChars == Letters \cup Digits \cup {"_"}

\* the character class of REGEX.property: [\w$_\.\[\]]
PropertyChars == WordChars \cup {"$", ".", "[", "]"}

\* an order of the characters, for the order of object keys
CharOrder ==
  <<" ", "!", "\"", "$", "&", "'", ",", "-", ".", "0", "1", "2", "3", "4", "5",
    "6", "7", "8", "9", ":", "F", "J", "O", "[", "]", "_", "a", "b", "c", "d",
    "e", "f", "g", "h", "i", "j", "k", "l", "m", "n", "o", "p", "q", "r", "s",
    "t", "u", "v", "w", "x", "y", "z", "{", "|", "}">>

CharRank(c) == CHOOSE i \in 1..Len(CharOrder) : CharOrder[i] = c

RECURSIVE StrLess(_, _)
StrLess(s, t) ==
  IF t = <<>> THEN FALSE
  ELSE IF s = <<>> THEN TRUE
  ELSE IF s[1] = t[1] THEN StrLess(Tail(s), Tail(t))
  ELSE CharRank(s[1]) < CharRank(t[1])

\* the keys of a set in iteration order
RECURSIVE SortedKeys(_)
SortedKeys(S) ==
  IF S = {} THEN <<>>
  ELSE LET k == CHOOSE x \in S : \A y \in S \ {x} : StrLess(x, y)
       IN <<k>> \o SortedKeys(S \ {k})

----------------------------------------------------------------------------
(* Values *)

Str(s) == <<"str", s>>
Num(n) == <<"num", n>>
Bool(b) == <<"bool", b>>
Arr(s) == <<"arr", s>>
Obj(f) == <<"obj", f>>
Null == <<"null">>
Undef == <<"undef">>
NaN == <<"nan">>
Err(prefix, detail) == <<"err", prefix, detail>>

Kind(v) == v[1]
IsErr(v) == Kind(v) = "err"
IsString(v) == Kind(v) = "str"
IsPlainObject(v) == Kind(v) = "obj"
IsArray(v) == Kind(v) = "arr"
IsObject(v) == Kind(v) \in {"obj", "arr"}
\* _.isUndefined(value) || _.isNil(value)
IsMissing(v) == Kind(v) \in {"undef", "null"}

EmptyObject == Obj(<<>>)

\* the words the code compares with
MissingVariable == <<"M", "i", "s", "s", "i", "n", "g", " ", "v", "a", "r", "i", "a", "b", "l", "e">>
CantConvert == <<"C", "a", "n", "'", "t", " ", "c", "o", "n", "v", "e", "r", "t">>
NoMatchFor == <<"N", "o", " ", "m", "a", "t", "c", "h", " ", "f", "o", "r">>
SyntaxError == <<"S", "y", "n", "t", "a", "x", "E", "r", "r", "o", "r">>
TypeError == <<"T", "y", "p", "e", "E", "r", "r", "o", "r">>

TypeNumber == <<"n", "u", "m", "b", "e", "r">>
TypeObject == <<"o", "b", "j", "e", "c", "t">>
TypeString == <<"s", "t", "r", "i", "n", "g">>

----------------------------------------------------------------------------
(* JavaScript conversions: String(value), JSON.stringify, JSON.parse,      *)
(* parseFloat, over integers and the characters above                      *)

RECURSIVE NatDigits(_)
NatDigits(n) ==
  IF n < 10 THEN <<DigitSeq[n + 1]>>
  ELSE NatDigits(n \div 10) \o <<DigitSeq[(n % 10) + 1]>>

NumberToString(n) == IF n < 0 THEN <<"-">> \o NatDigits(0 - n) ELSE NatDigits(n)

DigitValue(c) == (CHOOSE i \in 1..10 : DigitSeq[i] = c) - 1

RECURSIVE DigitsValue(_)
DigitsValue(ds) ==
  IF ds = <<>> THEN 0
  ELSE 10 * DigitsValue(SubSeq(ds, 1, Len(ds) - 1)) + DigitValue(ds[Len(ds)])

RECURSIVE Join(_, _)
Join(ss, sep) ==
  IF ss = <<>> THEN <<>>
  ELSE IF Len(ss) = 1 THEN ss[1]
  ELSE ss[1] \o sep \o Join(Tail(ss), sep)

\* String(value), the conversion behind template literals, RegExp exec,
\* parseFloat and JSON.parse of a value that is not a string
RECURSIVE StringOf(_)
StringOf(v) ==
  CASE Kind(v) = "str" -> v[2]
    [] Kind(v) = "num" -> NumberToString(v[2])
    [] Kind(v) = "bool" ->
         IF v[2] THEN <<"t", "r", "u", "e">> ELSE <<"f", "a", "l", "s", "e">>
    [] Kind(v) = "null" -> <<"n", "u", "l", "l">>
    [] Kind(v) = "undef" -> <<"u", "n", "d", "e", "f", "i", "n", "e", "d">>
    [] Kind(v) = "nan" -> <<"N", "a", "N">>
    [] Kind(v) = "arr" ->
         Join([i \in 1..Len(v[2]) |->
                 IF IsMissing(v[2][i]) THEN <<>> ELSE StringOf(v[2][i])],
              <<",">>)
    [] Kind(v) = "obj" ->
         <<"[", "o", "b", "j", "e", "c", "t", " ", "O", "b", "j", "e", "c", "t", "]">>

RECURSIVE JsonText(_)
JsonText(v) ==
  CASE Kind(v) = "str" -> <<"\"">> \o v[2] \o <<"\"">>
    [] Kind(v) = "num" -> NumberToString(v[2])
    [] Kind(v) = "bool" -> StringOf(v)
    [] Kind(v) \in {"null", "undef", "nan"} -> <<"n", "u", "l", "l">>
    [] Kind(v) = "arr" ->
         <<"[">> \o Join([i \in 1..Len(v[2]) |-> JsonText(v[2][i])], <<",">>)
                 \o <<"]">>
    [] Kind(v) = "obj" ->
         LET ks == SortedKeys({k \in DOMAIN v[2] : Kind(v[2][k]) # "undef"})
         IN <<"{">> \o Join([i \in 1..Len(ks) |->
                               <<"\"">> \o ks[i] \o <<"\"", ":">>
                                        \o JsonText(v[2][ks[i]])],
                            <<",">>)
                    \o <<"}">>

\* JSON.stringify(value): undefined for undefined, else the JSON text
JsonStringify(v) == IF Kind(v) = "undef" THEN Undef ELSE Str(JsonText(v))

RECURSIVE SkipWs(_, _)
SkipWs(t, i) == IF i <= Len(t) /\ t[i] = " " THEN SkipWs(t, i + 1) ELSE i

RECURSIVE SkipWsBack(_, _)
SkipWsBack(t, i) == IF i >= 1 /\ t[i] = " " THEN SkipWsBack(t, i - 1) ELSE i

\* _.trim
Trim(t) == SubSeq(t, SkipWs(t, 1), SkipWsBack(t, Len(t)))

RECURSIVE ScanDigits(_, _)
ScanDigits(t, i) ==
  IF i <= Len(t) /\ t[i] \in Digits THEN ScanDigits(t, i + 1) ELSE i

\* the index of the first double quote at or after i, 0 if there is none
RECURSIVE ScanQuote(_, _)
ScanQuote(t, i) ==
  IF i > Len(t) THEN 0 ELSE IF t[i] = "\"" THEN i ELSE ScanQuote(t, i + 1)

StartsWithAt(t, i, w) ==
  i + Len(w) - 1 <= Len(t) /\ SubSeq(t, i, i + Len(w) - 1) = w

Fail == <<"fail">>

\* a JSON number at i (an integer: the model has no fractions)
ParseNumber(t, i) ==
  LET s == IF t[i] = "-" THEN i + 1 ELSE i
      e == ScanDigits(t, s)
  IN IF e = s THEN Fail
     ELSE IF t[s] = "0" THEN <<"ok", Num(0), s + 1>>
     ELSE <<"ok",
            Num((IF s > i THEN 0 - 1 ELSE 1) * DigitsValue(SubSeq(t, s, e - 1))),
            e>>

\* the JSON value at i: <<"ok", value, index after it>> or Fail
RECURSIVE ParseValue(_, _)
RECURSIVE ParseElements(_, _, _)
RECURSIVE ParseMembers(_, _, _)
RECURSIVE ElementsAfter(_, _, _)
RECURSIVE MembersAfter(_, _, _, _)
ParseValue(t, i0) ==
  LET i == SkipWs(t, i0)
  IN IF i > Len(t) THEN Fail
     ELSE CASE t[i] = "\"" ->
                 LET j == ScanQuote(t, i + 1)
                 IN IF j = 0 THEN Fail
                    ELSE <<"ok", Str(SubSeq(t, i + 1, j - 1)), j + 1>>
            [] t[i] = "[" ->
                 LET j == SkipWs(t, i + 1)
                 IN IF j <= Len(t) /\ t[j] = "]" THEN <<"ok", Arr(<<>>), j + 1>>
                    ELSE ParseElements(t, i + 1, <<>>)
            [] t[i] = "{" ->
                 LET j == SkipWs(t, i + 1)
                 IN IF j <= Len(t) /\ t[j] = "}" THEN <<"ok", EmptyObject, j + 1>>
                    ELSE ParseMembers(t, i + 1, <<>>)
            [] StartsWithAt(t, i, <<"t", "r", "u", "e">>) ->
                 <<"ok", Bool(TRUE), i + 4>>
            [] StartsWithAt(t, i, <<"f", "a", "l", "s", "e">>) ->
                 <<"ok", Bool(FALSE), i + 5>>
            [] StartsWithAt(t, i, <<"n", "u", "l", "l">>) ->
                 <<"ok", Null, i + 4>>
            [] t[i] \in Digits \cup {"-"} -> ParseNumber(t, i)
            [] OTHER -> Fail

ParseElements(t, i, acc) == ElementsAfter(t, ParseValue(t, i), acc)

\* the rest of an array after its element r
ElementsAfter(t, r, acc) ==
  IF r = Fail THEN Fail
  ELSE LET j == SkipWs(t, r[3])
       IN IF j > Len(t) THEN Fail
          ELSE IF t[j] = "," THEN ParseElements(t, j + 1, Append(acc, r[2]))
          ELSE IF t[j] = "]" THEN <<"ok", Arr(Append(acc, r[2])), j + 1>>
          ELSE Fail

ParseMembers(t, i0, f) ==
  LET i == SkipWs(t, i0)
  IN IF i > Len(t) \/ t[i] # "\"" THEN Fail
     ELSE LET q == ScanQuote(t, i + 1)
          IN IF q = 0 THEN Fail
             ELSE LET c == SkipWs(t, q + 1)
                  IN IF c > Len(t) \/ t[c] # ":" THEN Fail
                     ELSE MembersAfter(t, SubSeq(t, i + 1, q - 1),
                                       ParseValue(t, c + 1), f)

\* the rest of an object after its member key: r
MembersAfter(t, key, r, f) ==
  IF r = Fail THEN Fail
  ELSE LET j == SkipWs(t, r[3])
           g == [k \in DOMAIN f \cup {key} |-> IF k = key THEN r[2] ELSE f[k]]
       IN IF j > Len(t) THEN Fail
          ELSE IF t[j] = "," THEN ParseMembers(t, j + 1, g)
          ELSE IF t[j] = "}" THEN <<"ok", Obj(g), j + 1>>
          ELSE Fail

\* the value of a text that is one JSON value r and white space
WholeValue(t, r) ==
  IF r = Fail THEN Err(SyntaxError, <<>>)
  ELSE IF SkipWs(t, r[3]) <= Len(t) THEN Err(SyntaxError, <<>>)
  ELSE r[2]

JsonParseText(t) == WholeValue(t, ParseValue(t, 1))

\* JSON.parse(value): the value, or the SyntaxError it throws
JsonParse(v) == JsonParseText(StringOf(v))

\* parseFloat(value): the number its text starts with, or NaN
ParseFloatText(t) ==
  LET i == SkipWs(t, 1)
      s == IF i <= Len(t) /\ t[i] \in {"-", "+"} THEN i + 1 ELSE i
      e == ScanDigits(t, s)
  IN IF e = s THEN NaN
     ELSE Num((IF i <= Len(t) /\ t[i] = "-" THEN 0 - 1 ELSE 1)
                * DigitsValue(SubSeq(t, s, e - 1)))

ParseFloat(v) == ParseFloatText(StringOf(v))

----------------------------------------------------------------------------
(* lodash: _.get, _.set, _.merge over the values of the model.  Paths are  *)
(* made of plain keys separated by dots or brackets.                       *)

Unmodelled == <<"unmodelled">>

\* an array index written as a key: "0", "1", ...
IsIndex(k) ==
  /\ k # <<>>
  /\ \A i \in 1..Len(k) : k[i] \in Digits
  /\ (Len(k) > 1 => k[1] # "0")

\* object[key]
Prop(object, key) ==
  CASE Kind(object) = "obj" ->
         IF key \in DOMAIN object[2] THEN object[2][key] ELSE Undef
    [] Kind(object) = "arr" ->
         IF IsIndex(key) /\ DigitsValue(key) < Len(object[2])
         THEN object[2][DigitsValue(key) + 1] ELSE Undef
    [] Kind(object) = "str" ->
         IF IsIndex(key) /\ DigitsValue(key) < Len(object[2])
         THEN Str(<<object[2][DigitsValue(key) + 1]>>) ELSE Undef
    [] OTHER -> Undef

\* key in Object(object)
HasKey(object, key) ==
  CASE Kind(object) = "obj" -> key \in DOMAIN object[2]
    [] Kind(object) \in {"arr", "str"} ->
         IsIndex(key) /\ DigitsValue(key) < Len(object[2])
    [] OTHER -> FALSE

\* object[key] = value
AssignProp(object, key, value) ==
  CASE Kind(object) = "obj" ->
         Obj([k \in DOMAIN object[2] \cup {key} |->
                IF k = key THEN value ELSE object[2][k]])
    [] Kind(object) = "arr" /\ IsIndex(key) ->
         LET n == DigitsValue(key) + 1
             m == IF n > Len(object[2]) THEN n ELSE Len(object[2])
         IN Arr([i \in 1..m |->
                   IF i = n THEN value
                   ELSE IF i <= Len(object[2]) THEN object[2][i] ELSE Undef])
    [] OTHER -> Unmodelled

PathSeparators == {".", "[", "]"}

\* stringToPath: the keys between the separators
RECURSIVE StringToPath(_)
StringToPath(p) ==
  IF p = <<>> THEN <<>>
  ELSE IF p[1] \in PathSeparators THEN StringToPath(Tail(p))
  ELSE LET n == CHOOSE k \in 1..Len(p) :
                  /\ \A i \in 1..k : p[i] \notin PathSeparators
                  /\ (k = Len(p) \/ p[k + 1] \in PathSeparators)
       IN <<SubSeq(p, 1, n)>> \o StringToPath(SubSeq(p, n + 1, Len(p)))

\* reIsDeepProp
IsDeepProp(p) ==
  \/ \E i \in 1..Len(p) : p[i] = "."
  \/ \E i \in 1..Len(p) : \E j \in (i + 1)..Len(p) :
       /\ p[i] = "[" /\ p[j] = "]"
       /\ \A k \in (i + 1)..(j - 1) : p[k] \notin {"[", "]"}

\* isKey
IsKey(p, object) ==
  \/ \A i \in 1..Len(p) : p[i] \in WordChars
  \/ ~IsDeepProp(p)
  \/ HasKey(object, p)

CastPath(p, object) == IF IsKey(p, object) THEN <<p>> ELSE StringToPath(p)

RECURSIVE BaseGet(_, _)
BaseGet(object, path) ==
  IF path = <<>> THEN object
  ELSE IF IsMissing(object) THEN Undef
  ELSE BaseGet(Prop(object, Head(path)), Tail(path))

\* _.get(object, path)
Get(object, p) ==
  IF IsMissing(object) THEN Undef ELSE BaseGet(object, CastPath(p, object))

RECURSIVE BaseSet(_, _, _)
BaseSet(object, path, value) ==
  LET key == Head(path)
      objValue == Prop(object, key)
      newValue ==
        IF Len(path) = 1 THEN value
        ELSE BaseSet(IF IsObject(objValue) THEN objValue
                     ELSE IF IsIndex(path[2]) THEN Arr(<<>>) ELSE EmptyObject,
                     Tail(path), value)
  IN AssignProp(object, key, newValue)

\* _.set(object, path, value)
Set(object, p, value) ==
  IF ~IsObject(object) THEN object
  ELSE BaseSet(object, CastPath(p, object), value)

\* the keys baseMerge visits in a source
KeysIn(source) ==
  IF Kind(source) = "obj" THEN SortedKeys(DOMAIN source[2])
  ELSE [i \in 1..Len(source[2]) |-> NumberToString(i - 1)]

\* assignMergeValue
AssignMergeValue(object, key, value) ==
  IF \/ (Kind(value) # "undef" /\ Prop(object, key) # value)
     \/ (Kind(value) = "undef" /\ ~HasKey(object, key))
  THEN AssignProp(object, key, value)
  ELSE object

\* baseMerge and baseMergeDeep
RECURSIVE BaseMerge(_, _)
RECURSIVE MergeKeys(_, _, _)
BaseMerge(object, source) == MergeKeys(object, source, KeysIn(source))

MergeKeys(object, source, keys) ==
  IF keys = <<>> THEN object
  ELSE LET key == Head(keys)
           srcValue == Prop(source, key)
           objValue == Prop(object, key)
           newValue ==
             IF IsArray(srcValue)
             THEN BaseMerge(IF IsArray(objValue) THEN objValue ELSE Arr(<<>>),
                            srcValue)
             ELSE IF IsPlainObject(srcValue)
             THEN IF IsArray(objValue) THEN Unmodelled
                  ELSE BaseMerge(IF IsPlainObject(objValue) THEN objValue
                                 ELSE EmptyObject,
                                 srcValue)
             ELSE srcValue
       IN MergeKeys(AssignMergeValue(object, key, newValue), source, Tail(keys))

\* _.merge(object, source)
Merge(object, source) ==
  IF IsObject(source) THEN BaseMerge(object, source) ELSE object

----------------------------------------------------------------------------
(* lib/regexes.js.  A delimiter is given as regular expression source; the *)
(* model reads an escaped character as that character and knows no other   *)
(* special character in a delimiter.  An interpolation RegExp is the       *)
(* record of its delimiters and of whether it is anchored (^...$).         *)

OpenDelimiters == <<"{", "{">>
CloseDelimiters == <<"}", "}">>

RECURSIVE Unescape(_)
Unescape(src) ==
  IF src = <<>> THEN <<>>
  ELSE IF src[1] = "\\" /\ Len(src) >= 2
  THEN <<src[2]>> \o Unescape(SubSeq(src, 3, Len(src)))
  ELSE <<src[1]>> \o Unescape(Tail(src))

\* _.first(delimiters) || REGEX.openDelimiters
FirstDelimiter(delimiters) ==
  IF delimiters # <<>> /\ delimiters[1] # <<>> THEN delimiters[1]
  ELSE OpenDelimiters

\* _.last(delimiters) || REGEX.closeDelimiters
LastDelimiter(delimiters) ==
  IF delimiters # <<>> /\ delimiters[Len(delimiters)] # <<>>
  THEN delimiters[Len(delimiters)]
  ELSE CloseDelimiters

getUnboundedInterpolation(delimiters) ==
  [open |-> Unescape(FirstDelimiter(delimiters)),
   close |-> Unescape(LastDelimiter(delimiters)),
   bounded |-> FALSE, typeGroup |-> TRUE]

getBoundedInterpolation(delimiters) ==
  [open |-> Unescape(FirstDelimiter(delimiters)),
   close |-> Unescape(LastDelimiter(delimiters)),
   bounded |-> TRUE, typeGroup |-> TRUE]

getTemplateInterpolation(delimiters) ==
  [open |-> Unescape(FirstDelimiter(delimiters)),
   close |-> Unescape(LastDelimiter(delimiters)),
   bounded |-> FALSE, typeGroup |-> FALSE]

RECURSIVE ScanClass(_, _, _)
ScanClass(s, i, C) ==
  IF i <= Len(s) /\ s[i] \in C THEN ScanClass(s, i + 1, C) ELSE i

\* REGEX.property followed by the close delimiter, from q: the greedy run of
\* property characters, given back until the close delimiter (and, anchored,
\* the end of the string) follows.  The index of the close delimiter, or 0.
PropertyAt(rx, s, q) ==
  LET r == ScanClass(s, q, PropertyChars)
      ends == {e \in (q + 1)..r :
                 /\ StartsWithAt(s, e, rx.close)
                 /\ (rx.bounded => e + Len(rx.close) = Len(s) + 1)}
  IN IF ends = {} THEN 0 ELSE CHOOSE e \in ends : \A f \in ends : f <= e

\* typed, plain: the close delimiter of the match with and without a type
GroupsAt(rx, s, p, w, typed, plain) ==
  IF typed # 0
  THEN <<"ok", typed + Len(rx.close),
         Str(SubSeq(s, p, w - 1)), SubSeq(s, w + 1, typed - 1)>>
  ELSE IF plain # 0
  THEN <<"ok", plain + Len(rx.close), Undef, SubSeq(s, p, plain - 1)>>
  ELSE Fail

\* the token whose type would be s[p..w-1]
TypeAt(rx, s, p, w) ==
  GroupsAt(rx, s, p, w,
           IF w > p /\ w <= Len(s) /\ s[w] = ":"
           THEN PropertyAt(rx, s, w + 1) ELSE 0,
           PropertyAt(rx, s, p))

\* the match of an interpolation RegExp that starts at i:
\* <<"ok", index after it, type (group 2), property (group 3)>> or Fail.
\* The optional type "\w+:" is tried first, then the match without it.
MatchAt(rx, s, i) ==
  IF ~StartsWithAt(s, i, rx.open) \/ (rx.bounded /\ i # 1) THEN Fail
  ELSE TypeAt(rx, s, i + Len(rx.open),
              ScanClass(s, i + Len(rx.open), WordChars))

\* regex.exec(s) with lastIndex = from - 1:
\* <<"ok", start, index after, type, property>> or Fail
RECURSIVE ExecFrom(_, _, _)
RECURSIVE ExecAt(_, _, _, _)
ExecFrom(rx, s, from) ==
  IF from > Len(s) THEN Fail ELSE ExecAt(rx, s, from, MatchAt(rx, s, from))

ExecAt(rx, s, from, m) ==
  IF m = Fail THEN ExecFrom(rx, s, from + 1)
  ELSE <<"ok", from, m[2], m[3], m[4]>>

\* the spans <<start, index after>> of all matches, left to right
RECURSIVE MatchSpans(_, _, _)
RECURSIVE SpansAfter(_, _, _)
MatchSpans(rx, s, i) == SpansAfter(rx, s, ExecFrom(rx, s, i))

SpansAfter(rx, s, m) ==
  IF m = Fail THEN <<>> ELSE << <<m[2], m[3]>> >> \o MatchSpans(rx, s, m[3])

SubSeqs(s, spans) ==
  [k \in 1..Len(spans) |-> SubSeq(s, spans[k][1], spans[k][2] - 1)]

\* string.match(rx) of a global RegExp (null is the empty sequence)
StringMatch(s, rx) == SubSeqs(s, MatchSpans(rx, s, 1))

\* rx.test(s) of a fresh RegExp
RegexTest(rx, s) == ExecFrom(rx, s, 1) # Fail

\* { type: _.nth(matches, 2), property: _.nth(matches, 3) }
Groups(m) ==
  IF m = Fail THEN [type |-> Undef, property |-> Undef]
  ELSE [type |-> m[4], property |-> Str(m[5])]

\* regexes.execute: lastIndex is reset, so the search starts at the start
execute(rx, s) == Groups(ExecFrom(rx, s, 1))

----------------------------------------------------------------------------
(* The RegExp that deinterpolate builds from the template text.  Of the    *)
(* syntax of regular expressions the model knows the characters it draws:  *)
(* "." (any character), "|" (alternation), "$" (end), "[...]" (a class),   *)
(* the group "(.+)" put in place of a token; every other character stands  *)
(* for itself.                                                             *)

\* template.replace(unboundedInterpolation, '(.+)'): the source, a sequence
\* of <<"chr", c>> and <<"grp">>
RECURSIVE ReplaceTokens(_, _, _)
RECURSIVE ReplaceAt(_, _, _, _)
ReplaceTokens(rx, s, i) ==
  IF i > Len(s) THEN <<>> ELSE ReplaceAt(rx, s, i, MatchAt(rx, s, i))

ReplaceAt(rx, s, i, m) ==
  IF m = Fail THEN << <<"chr", s[i]>> >> \o ReplaceTokens(rx, s, i + 1)
  ELSE << <<"grp">> >> \o ReplaceTokens(rx, s, m[2])

GroupChars == {"(", ".", "+", ")"}

\* the index of the "]" that closes the class opened before i, 0 if none
RECURSIVE ClassEnd(_, _)
ClassEnd(src, i) ==
  IF i > Len(src) THEN 0
  ELSE IF src[i] = <<"chr", "]">> THEN i
  ELSE ClassEnd(src, i + 1)

ClassOf(src, i, j) ==
  UNION {IF src[k][1] = "grp" THEN GroupChars ELSE {src[k][2]} : k \in i..j}

\* new RegExp(source): <<"ok", alternatives>>, each a sequence of
\* <<"lit", c>>, <<"any">>, <<"end">>, <<"class", S>>, <<"cap">>;
\* or Fail for an unterminated class
RECURSIVE CompileRegex(_, _, _, _)
CompileRegex(src, i, alt, alts) ==
  IF i > Len(src) THEN <<"ok", Append(alts, alt)>>
  ELSE IF src[i][1] = "grp"
  THEN CompileRegex(src, i + 1, Append(alt, <<"cap">>), alts)
  ELSE LET c == src[i][2]
       IN CASE c = "|" -> CompileRegex(src, i + 1, <<>>, Append(alts, alt))
            [] c = "." -> CompileRegex(src, i + 1, Append(alt, <<"any">>), alts)
            [] c = "$" -> CompileRegex(src, i + 1, Append(alt, <<"end">>), alts)
            [] c = "[" ->
                 LET j == ClassEnd(src, i + 1)
                 IN IF j = 0 THEN Fail
                    ELSE CompileRegex(src, j + 1,
                           Append(alt, <<"class", ClassOf(src, i + 1, j - 1)>>),
                           alts)
            [] OTHER -> CompileRegex(src, i + 1, Append(alt, <<"lit", c>>), alts)

\* the match of the elements from k on at index j of s: <<"ok", captures>>
\* or Fail.  The group (.+) is greedy: the longest run first.
RECURSIVE MatchElems(_, _, _, _)
RECURSIVE MatchCap(_, _, _, _, _)
RECURSIVE CapAfter(_, _, _, _, _, _)
MatchElems(elems, k, s, j) ==
  IF k > Len(elems) THEN <<"ok", <<>>>>
  ELSE LET e == elems[k]
       IN CASE e[1] = "lit" ->
                 IF j <= Len(s) /\ s[j] = e[2]
                 THEN MatchElems(elems, k + 1, s, j + 1) ELSE Fail
            [] e[1] = "any" ->
                 IF j <= Len(s) THEN MatchElems(elems, k + 1, s, j + 1) ELSE Fail
            [] e[1] = "class" ->
                 IF j <= Len(s) /\ s[j] \in e[2]
                 THEN MatchElems(elems, k + 1, s, j + 1) ELSE Fail
            [] e[1] = "end" ->
                 IF j = Len(s) + 1 THEN MatchElems(elems, k + 1, s, j) ELSE Fail
            [] e[1] = "cap" -> MatchCap(elems, k, s, j, Len(s) - j + 1)

MatchCap(elems, k, s, j, n) ==
  IF n < 1 THEN Fail
  ELSE CapAfter(elems, k, s, j, n, MatchElems(elems, k + 1, s, j + n))

CapAfter(elems, k, s, j, n, rest) ==
  IF rest = Fail THEN MatchCap(elems, k, s, j, n - 1)
  ELSE <<"ok", <<Str(SubSeq(s, j, j + n - 1))>> \o rest[2]>>

CountCaps(elems) == Cardinality({k \in 1..Len(elems) : elems[k][1] = "cap"})

Undefs(n) == [i \in 1..n |-> Undef]

\* the first alternative, from a on, that matches at j: the captures of all
\* groups (a group of another alternative is undefined), or Fail
RECURSIVE MatchAlts(_, _, _, _, _)
RECURSIVE AltAfter(_, _, _, _, _, _)
MatchAlts(alts, a, s, j, before) ==
  IF a > Len(alts) THEN Fail
  ELSE AltAfter(alts, a, s, j, before, MatchElems(alts[a], 1, s, j))

AltAfter(alts, a, s, j, before, m) ==
  IF m = Fail
  THEN MatchAlts(alts, a + 1, s, j, before \o Undefs(CountCaps(alts[a])))
  ELSE <<"ok",
         before \o m[2]
           \o Undefs(CountCaps(Join(SubSeq(alts, a + 1, Len(alts)), <<>>)))>>

\* regex.exec(s) of a RegExp that is not global: the leftmost match
RECURSIVE RegexExec(_, _, _)
RECURSIVE ExecAfter(_, _, _, _)
RegexExec(alts, s, j) ==
  IF j > Len(s) + 1 THEN Fail
  ELSE ExecAfter(alts, s, j, MatchAlts(alts, 1, s, j, <<>>))

ExecAfter(alts, s, j, m) == IF m = Fail THEN RegexExec(alts, s, j + 1) ELSE m

----------------------------------------------------------------------------
(* lib/string.js *)

\* the NaN check on the result of the cast
CheckResult(type, value, result) ==
  IF Kind(result) = "nan"
  THEN Err(CantConvert, <<StringOf(value), StringOf(type)>>)
  ELSE result

transformValue(type, value) ==
  CheckResult(type, value,
              CASE type = Str(TypeNumber) -> ParseFloat(value)
                [] type = Str(TypeObject) ->
                     IF IsPlainObject(value) THEN value ELSE JsonParse(value)
                [] type = Str(TypeString) ->
                     IF IsString(value) THEN value ELSE JsonStringify(value)
                [] OTHER -> value)

\* string.split('||')
RECURSIVE SplitBars(_)
SplitBars(s) ==
  LET hits == {i \in 1..(Len(s) - 1) : s[i] = "|" /\ s[i + 1] = "|"}
  IN IF hits = {} THEN <<s>>
     ELSE LET i == CHOOSE h \in hits : \A g \in hits : h <= g
          IN <<SubSeq(s, 1, i - 1)>> \o SplitBars(SubSeq(s, i + 2, Len(s)))

\* const [ property, defaultValue ] = expression.split('||').map(_.trim)
Destructure(pieces) ==
  [property |-> Trim(pieces[1]),
   defaultValue |-> IF Len(pieces) >= 2 THEN Str(Trim(pieces[2])) ELSE Undef]

SplitExpression(expression) == Destructure(SplitBars(expression))

\* if (defaultValue)
Truthy(v) == Kind(v) = "str" /\ v[2] # <<>>

\* the index of the first occurrence of pat in s, 0 if there is none
IndexOf(s, pat) ==
  LET hits == {i \in 1..(Len(s) - Len(pat) + 1) : StartsWithAt(s, i, pat)}
  IN IF hits = {} THEN 0 ELSE CHOOSE h \in hits : \A g \in hits : h <= g

\* the replacement text of String.prototype.replace: $$, $&, $` and $' are
\* patterns, also when the pattern replaced is a string
RECURSIVE GetSubstitution(_, _, _, _)
GetSubstitution(repl, matched, before, after) ==
  IF repl = <<>> THEN <<>>
  ELSE IF repl[1] = "$" /\ Len(repl) >= 2 /\ repl[2] \in {"$", "&", "`", "'"}
  THEN (CASE repl[2] = "$" -> <<"$">>
          [] repl[2] = "&" -> matched
          [] repl[2] = "`" -> before
          [] repl[2] = "'" -> after)
       \o GetSubstitution(SubSeq(repl, 3, Len(repl)), matched, before, after)
  ELSE <<repl[1]>> \o GetSubstitution(Tail(repl), matched, before, after)

\* _.replace(string, pattern, replacement) with a string pattern: the first
\* occurrence is replaced
ReplaceFirst(s, pat, repl, i) ==
  IF i = 0 THEN s
  ELSE SubSeq(s, 1, i - 1)
         \o GetSubstitution(repl, pat, SubSeq(s, 1, i - 1),
                            SubSeq(s, i + Len(pat), Len(s)))
         \o SubSeq(s, i + Len(pat), Len(s))

StringReplace(s, pat, repl) == ReplaceFirst(s, pat, repl, IndexOf(s, pat))

\* a faulty variant of Substitute: the value is written into the string also
\* when the token is the whole string
SubstituteText(accumulator, match, whole, type, value) ==
  IF IsErr(value) THEN value
  ELSE Str(StringReplace(StringOf(accumulator), match,
                         StringOf(transformValue(Str(TypeString), value))))

\* the end of interpolate's callback, for the value of the token
Substitute(accumulator, match, whole, type, value) ==
  IF IsErr(value) THEN value
  ELSE IF whole THEN transformValue(type, value)
  ELSE Str(StringReplace(StringOf(accumulator), match,
                         StringOf(transformValue(Str(TypeString), value))))

\* a faulty variant of Resolve: every falsy value counts as missing
ResolveFalsy(accumulator, match, whole, template, options, interpolation, defaultValue, found) ==
  IF /\ IsMissing(found) \/ found \in {Num(0), Bool(FALSE), Str(<<>>)}
     /\ Kind(defaultValue) = "undef"
  THEN IF options.allowMissing THEN Str(template)
       ELSE Err(MissingVariable, interpolation.property[2])
  ELSE Substitute(accumulator, match, whole, interpolation.type,
                  IF IsMissing(found) THEN JsonParse(defaultValue) ELSE found)

\* the callback from the lookup of the property on: found is
\* _.get(data, property)
Resolve(accumulator, match, whole, template, options, interpolation, defaultValue, found) ==
  IF IsMissing(found) /\ Kind(defaultValue) = "undef"
  THEN IF options.allowMissing THEN Str(template)
       ELSE Err(MissingVariable, interpolation.property[2])
  ELSE Substitute(accumulator, match, whole, interpolation.type,
                  IF IsMissing(found) THEN JsonParse(defaultValue) ELSE found)

\* the callback from the split of the expression on
Lookup(accumulator, match, whole, template, data, options, interpolation, expression) ==
  Resolve(accumulator, match, whole, template, options, interpolation,
          expression.defaultValue, Get(data, expression.property))

\* the callback from the groups of the token on
Expand(accumulator, match, whole, template, data, options, interpolation) ==
  IF Kind(interpolation.property) # "str" THEN Err(TypeError, <<>>)
  ELSE Lookup(accumulator, match, whole, template, data, options,
              interpolation, SplitExpression(interpolation.property[2]))

\* the callback of interpolate's reduce: the next accumulator, or the Error
InterpolateStep(accumulator, match, collection, template, data, options) ==
  Expand(accumulator, match, Len(collection) = 1 /\ match = template,
         template, data, options,
         execute(getBoundedInterpolation(options.delimiters), match))

RECURSIVE InterpolateFrom(_, _, _, _, _, _)
RECURSIVE InterpolateNext(_, _, _, _, _, _)
InterpolateFrom(template, data, options, collection, index, accumulator) ==
  IF index > Len(collection) THEN accumulator
  ELSE InterpolateNext(template, data, options, collection, index,
                       InterpolateStep(accumulator, collection[index],
                                       collection, template, data, options))

InterpolateNext(template, data, options, collection, index, next) ==
  IF IsErr(next) THEN next
  ELSE InterpolateFrom(template, data, options, collection, index + 1, next)

interpolate(template, data, options) ==
  InterpolateFrom(template, data, options,
                  StringMatch(template,
                              getTemplateInterpolation(options.delimiters)),
                  1, Str(template))

\* a faulty variant of createSinglePropertyObject: the key is not read as a
\* path
FlatPropertyObject(key, value) == Obj(key :> value)

createSinglePropertyObject(key, value) == Set(EmptyObject, key, value)

\* the bounded case when the result is not the default value
BoundedCast(property, value) ==
  IF IsErr(value) THEN value ELSE createSinglePropertyObject(property, value)

\* the bounded case from the parse of the default value on
BoundedDefault(type, data, expression, parsedDefaultValue) ==
  IF Truthy(expression.defaultValue) /\ IsErr(parsedDefaultValue)
  THEN parsedDefaultValue
  ELSE IF Truthy(expression.defaultValue) /\ parsedDefaultValue = data
  THEN Obj(expression.property :> parsedDefaultValue)
  ELSE BoundedCast(expression.property, transformValue(type, data))

BoundedExpression(type, data, expression) ==
  BoundedDefault(type, data, expression,
                 IF Truthy(expression.defaultValue)
                 THEN JsonParse(expression.defaultValue) ELSE Undef)

BoundedGroups(data, interpolation) ==
  BoundedExpression(interpolation.type, data,
                    SplitExpression(interpolation.property[2]))

\* deinterpolate when the template is one bounded interpolation
DeinterpolateBounded(template, data, options) ==
  BoundedGroups(data,
                execute(getBoundedInterpolation(options.delimiters), template))

\* _.zip(allExpressions, allValues): null is left out of the groups zipped
Zip(allExpressions, allValues) ==
  IF allExpressions = <<>>
  THEN [i \in 1..Len(allValues) |->
          [first |-> allValues[i], last |-> allValues[i]]]
  ELSE LET n == IF Len(allExpressions) > Len(allValues)
                THEN Len(allExpressions) ELSE Len(allValues)
       IN [i \in 1..n |->
             [first |-> IF i <= Len(allExpressions) THEN Str(allExpressions[i])
                        ELSE Undef,
              last |-> IF i <= Len(allValues) THEN allValues[i] ELSE Undef]]

RECURSIVE DeinterpolateFrom(_, _, _, _)
RECURSIVE PairCast(_, _, _, _, _, _)
RECURSIVE PairDefault(_, _, _, _, _, _, _, _)
RECURSIVE PairExpression(_, _, _, _, _, _, _)
RECURSIVE PairGroups(_, _, _, _, _, _)

\* the callback of deinterpolate's reduce from the cast of the value on
PairCast(pairs, index, result, options, property, cast) ==
  IF IsErr(cast) THEN cast
  ELSE DeinterpolateFrom(pairs, index + 1, Set(result, property, cast), options)

\* the callback from the parse of the default value on
PairDefault(pairs, index, result, options, interpolation, expression, captured, parsedDefaultValue) ==
  IF Kind(captured) = "undef"
  THEN Err(NoMatchFor, interpolation.property[2])
  ELSE IF Truthy(expression.defaultValue) /\ IsErr(parsedDefaultValue)
  THEN parsedDefaultValue
  ELSE PairCast(pairs, index, result, options, expression.property,
                transformValue(interpolation.type,
                               IF /\ Truthy(expression.defaultValue)
                                  /\ Str(StringOf(parsedDefaultValue)) = captured
                               THEN parsedDefaultValue ELSE captured))

PairExpression(pairs, index, result, options, interpolation, expression, captured) ==
  PairDefault(pairs, index, result, options, interpolation, expression,
              captured,
              IF Truthy(expression.defaultValue)
              THEN JsonParse(expression.defaultValue) ELSE Undef)

PairGroups(pairs, index, result, options, interpolation, captured) ==
  IF Kind(interpolation.property) # "str" THEN Err(TypeError, <<>>)
  ELSE PairExpression(pairs, index, result, options, interpolation,
                      SplitExpression(interpolation.property[2]), captured)

\* the reduce of deinterpolate over the pairs
DeinterpolateFrom(pairs, index, result, options) ==
  IF index > Len(pairs) THEN result
  ELSE PairGroups(pairs, index, result, options,
                  execute(getUnboundedInterpolation(options.delimiters),
                          StringOf(pairs[index].first)),
                  pairs[index].last)

\* tail(templateRegex.exec(data)): null has no groups
Captures(found) == IF found = Fail THEN <<>> ELSE found[2]

\* the unbounded case from the RegExp of the template on
UnboundedExec(template, data, options, unboundedInterpolation, templateRegex) ==
  IF templateRegex = Fail THEN Err(SyntaxError, <<>>)
  ELSE DeinterpolateFrom(
         Zip(StringMatch(template, unboundedInterpolation),
             Captures(RegexExec(templateRegex[2], StringOf(data), 1))),
         1, EmptyObject, options)

UnboundedRegex(template, data, options, unboundedInterpolation) ==
  UnboundedExec(template, data, options, unboundedInterpolation,
                CompileRegex(ReplaceTokens(unboundedInterpolation, template, 1),
                             1, <<>>, <<>>))

\* deinterpolate when the template is not one bounded interpolation
DeinterpolateUnbounded(template, data, options) ==
  UnboundedRegex(template, data, options,
                 getUnboundedInterpolation(options.delimiters))

deinterpolate(template, data, options) ==
  IF RegexTest(getBoundedInterpolation(options.delimiters), template)
  THEN DeinterpolateBounded(template, data, options)
  ELSE DeinterpolateUnbounded(template, data, options)

----------------------------------------------------------------------------
(* lib/index.js.  Options are the record of options.delimiters (<<>> when  *)
(* not given) and options.allowMissing.                                    *)

NoOptions == [delimiters |-> <<>>, allowMissing |-> FALSE]

\* the keys _.mapValues, _.reduce and _.each visit in a collection
OwnKeys(v) ==
  CASE Kind(v) = "obj" -> SortedKeys(DOMAIN v[2])
    [] Kind(v) \in {"arr", "str"} ->
         [i \in 1..Len(v[2]) |-> NumberToString(i - 1)]
    [] OTHER -> <<>>

\* the first Error of a sequence of outcomes, Undef if there is none
FirstError(rs) ==
  LET bad == {i \in 1..Len(rs) : IsErr(rs[i])}
  IN IF bad = {} THEN Undef ELSE rs[CHOOSE i \in bad : \A j \in bad : i <= j]

\* the array _.map returns, or the first Error thrown on the way
MapElements(rs) == IF IsErr(FirstError(rs)) THEN FirstError(rs) ELSE Arr(rs)

\* the object _.mapValues returns, or the first Error thrown on the way
MapValues(keys, rs) ==
  IF IsErr(FirstError(rs)) THEN FirstError(rs)
  ELSE Obj([k \in {keys[i] : i \in 1..Len(keys)} |->
              rs[CHOOSE i \in 1..Len(keys) : keys[i] = k]])

RECURSIVE compile(_, _, _)
RECURSIVE CompileKeys(_, _, _, _)
RECURSIVE CompileValue(_, _, _)

\* the callback of compile's _.mapValues
CompileValue(value, data, options) ==
  CASE IsPlainObject(value) -> compile(value, data, options)
    [] IsString(value) ->
         interpolate(value[2], data,
                     [delimiters |-> options.delimiters, allowMissing |-> FALSE])
    [] IsArray(value) ->
         MapElements([i \in 1..Len(value[2]) |->
                        compile(value[2][i], data, options)])
    [] OTHER -> value

CompileKeys(template, data, options, keys) ==
  MapValues(keys,
            [i \in 1..Len(keys) |->
               CompileValue(Prop(template, keys[i]), data, options)])

compile(template, data, options) ==
  CompileKeys(template, data, options, OwnKeys(template))

RECURSIVE decompile(_, _, _)
RECURSIVE DecompileFrom(_, _, _, _, _)
RECURSIVE DecompileKey(_, _, _, _, _, _, _)
RECURSIVE DecompileMerge(_, _, _, _, _, _, _)
RECURSIVE DecompileEach(_, _, _, _, _)
RECURSIVE EachMerge(_, _, _, _, _, _)

\* the _.each of decompile over the elements of the result, for an array
\* of the template
DecompileEach(data, value, stringValue, keys, options) ==
  IF keys = <<>> THEN data
  ELSE EachMerge(data, value, stringValue, keys, options,
                 decompile(Prop(value, Head(keys)),
                           Prop(stringValue, Head(keys)), options))

EachMerge(data, value, stringValue, keys, options, found) ==
  IF IsErr(found) THEN found
  ELSE DecompileEach(Merge(data, found), value, stringValue, Tail(keys),
                     options)

\* the reduce of decompile over the keys of the template
DecompileFrom(template, keys, result, options, data) ==
  IF keys = <<>> THEN data
  ELSE DecompileKey(template, keys, result, options, data,
                    Prop(template, Head(keys)), Get(result, Head(keys)))

\* the callback of decompile's reduce
DecompileKey(template, keys, result, options, data, value, stringValue) ==
  DecompileMerge(template, keys, result, options, data, value,
    CASE IsPlainObject(value) -> decompile(value, stringValue, options)
      [] IsString(value) ->
           deinterpolate(value[2], stringValue,
                         [delimiters |-> options.delimiters,
                          allowMissing |-> FALSE])
      [] IsArray(value) ->
           DecompileEach(data, value, stringValue, OwnKeys(stringValue),
                         options)
      [] OTHER -> EmptyObject)

DecompileMerge(template, keys, result, options, data, value, found) ==
  IF IsErr(found) THEN found
  ELSE DecompileFrom(template, Tail(keys), result, options,
                     IF IsArray(value) THEN found ELSE Merge(data, found))

decompile(template, result, options) ==
  DecompileFrom(template, OwnKeys(template), result, options, EmptyObject)

\* error.message starts with 'Missing variable'
IsMissingVariable(error) == StartsWithAt(error[2], 1, MissingVariable)

\* a faulty variant of MatchesCompiled: every Error of the compilation is
\* turned into false
MatchesSwallowed(object, compiled) ==
  IF IsErr(compiled) THEN Bool(FALSE) ELSE Bool(compiled = object)

\* the try and catch of matches around the compilation
MatchesCompiled(object, compiled) ==
  IF IsErr(compiled)
  THEN IF IsMissingVariable(compiled) THEN Bool(FALSE) ELSE compiled
  ELSE Bool(compiled = object)

MatchesData(template, object, options, data) ==
  IF IsErr(data) THEN data
  ELSE MatchesCompiled(object, compile(template, data, options))

matches(template, object, options) ==
  MatchesData(template, object, options, decompile(template, object, NoOptions))

----------------------------------------------------------------------------
(* What decompile does to the object it is given.  A fragment that         *)
(* deinterpolate returns may hold the very object found in the result: the *)
(* cast returns the value it is given.  _.merge writes into the objects    *)
(* that its destination holds.  The state of the reduce of decompile is    *)
(* the accumulator `data`, for each key of data the path, in the object    *)
(* decompiled, of the object that data shares at the key, and the object   *)
(* decompiled as the merges have left it.                                  *)

\* the path of an object that is shared with nothing
NotShared == <<>>

Heap(data, shared, object) == [data |-> data, shared |-> shared, object |-> object]

SharedAt(shared, key) == IF key \in DOMAIN shared THEN shared[key] ELSE NotShared

Share(shared, key, origin) ==
  [k \in DOMAIN shared \cup {key} |-> IF k = key THEN origin ELSE shared[k]]

\* a faulty variant of Cloned: the object of the source is assigned as it is
SharedSource(origin) == origin

\* baseMergeDeep, for an object of the source where the destination holds
\* none: the destination gets a new object, which shares nothing
Cloned(origin) == NotShared

\* baseMergeDeep writes into the object that the destination holds
Reused(objValue, srcValue) ==
  \/ IsArray(srcValue) /\ IsArray(objValue)
  \/ IsPlainObject(srcValue) /\ IsPlainObject(objValue)

\* the merge of one key: the accumulator, what it shares at the key, and
\* the object decompiled, written through what the accumulator shares
MergeHeapKey(heap, key, srcValue, objValue, origin, merged) ==
  Heap(merged,
       Share(heap.shared, key,
             CASE IsObject(srcValue) /\ Reused(objValue, srcValue) ->
                    SharedAt(heap.shared, key)
               [] IsObject(srcValue) -> Cloned(origin)
               [] Kind(srcValue) = "undef" -> SharedAt(heap.shared, key)
               [] OTHER -> NotShared),
       IF /\ IsObject(srcValue)
          /\ Reused(objValue, srcValue)
          /\ SharedAt(heap.shared, key) # NotShared
       THEN BaseSet(heap.object, SharedAt(heap.shared, key), Prop(merged, key))
       ELSE heap.object)

RECURSIVE MergeHeapKeys(_, _, _, _)
MergeHeapKeys(heap, found, origins, keys) ==
  IF keys = <<>> THEN heap
  ELSE MergeHeapKeys(
         MergeHeapKey(heap, Head(keys), Prop(found, Head(keys)),
                      Prop(heap.data, Head(keys)), SharedAt(origins, Head(keys)),
                      MergeKeys(heap.data, found, <<Head(keys)>>)),
         found, origins, Tail(keys))

\* _.merge(data, found), where origins are the paths of the objects of found
MergeHeap(heap, found, origins) ==
  IF IsObject(found) THEN MergeHeapKeys(heap, found, origins, KeysIn(found))
  ELSE heap

\* a fragment of deinterpolate, or the Error thrown for it, reaches the
\* accumulator.  An object that the cast has returned as it was given is
\* the object found in the result at the path `at`; any other object of a
\* fragment is a new one.
HeapFound(heap, found, stringValue, at) ==
  IF IsErr(found) THEN Heap(found, heap.shared, heap.object)
  ELSE MergeHeap(heap, found,
                 [k \in DOMAIN found[2] |->
                    IF IsObject(found[2][k]) /\ found[2][k] = stringValue
                    THEN at ELSE NotShared])

\* the data of a decompile inside, or its Error, reach the accumulator
HeapNested(heap, inner) ==
  IF IsErr(inner.data) THEN Heap(inner.data, heap.shared, inner.object)
  ELSE MergeHeap(Heap(heap.data, heap.shared, inner.object), inner.data,
                 inner.shared)

RECURSIVE DecompileHeap(_, _, _, _, _)
RECURSIVE HeapFrom(_, _, _, _, _, _)
RECURSIVE HeapKey(_, _, _, _, _)
RECURSIVE HeapEach(_, _, _, _, _, _)

\* the _.each of decompile over the elements of the result
HeapEach(value, stringValue, at, keys, options, heap) ==
  IF keys = <<>> \/ IsErr(heap.data) THEN heap
  ELSE HeapEach(value, stringValue, at, Tail(keys), options,
                HeapNested(heap,
                           DecompileHeap(Prop(value, Head(keys)),
                                         Prop(stringValue, Head(keys)),
                                         Append(at, Head(keys)), options,
                                         heap.object)))

\* the callback of decompile's reduce; at is the path of stringValue
HeapKey(value, stringValue, at, options, heap) ==
  CASE IsPlainObject(value) ->
         HeapNested(heap,
                    DecompileHeap(value, stringValue, at, options, heap.object))
    [] IsString(value) ->
         HeapFound(heap,
                   deinterpolate(value[2], stringValue,
                                 [delimiters |-> options.delimiters,
                                  allowMissing |-> FALSE]),
                   stringValue, at)
    [] IsArray(value) ->
         HeapEach(value, stringValue, at, OwnKeys(stringValue), options, heap)
    [] OTHER -> heap

\* the reduce of decompile over the keys of the template
HeapFrom(template, keys, result, at, options, heap) ==
  IF keys = <<>> \/ IsErr(heap.data) THEN heap
  ELSE HeapFrom(template, Tail(keys), result, at, options,
                HeapKey(Prop(template, Head(keys)), Get(result, Head(keys)),
                        Append(at, Head(keys)), options, heap))

\* decompile of the result found at the path `at` of the object: the
\* accumulator starts as a new, empty object
DecompileHeap(template, result, at, options, object) ==
  HeapFrom(template, OwnKeys(template), result, at, options,
           Heap(EmptyObject, <<>>, object))

\* the object that decompile was given, as the call leaves it
ObjectAfter(template, result, options) ==
  DecompileHeap(template, result, <<>>, options, result).object

----------------------------------------------------------------------------
(* The calls.  A template string is drawn as its pieces: literal text and  *)
(* tokens (type, path, default clause), written out under the delimiters   *)
(* of the call.                                                            *)

VARIABLES pc, call, template, parts, input, options, out, back, passed

vars == <<pc, call, template, parts, input, options, out, back, passed>>

\* the template, the object and the options of a call, as the call leaves
\* them to its caller
Passed(t, object, o) == [template |-> t, object |-> object, options |-> o]

\* the most tokens in a template string drawn with several tokens
MaxTokens == 3
\* the most string leaves in a flat template tree
MaxLeaves == 2
\* the size of the numbers drawn
MaxNumber == 4

None == <<"none">>

Lit(text) ==
  [tok |-> FALSE, text |-> text, type |-> <<>>, path |-> <<>>, def |-> <<>>]

Tok(type, path, def) ==
  [tok |-> TRUE, text |-> <<>>, type |-> type, path |-> path, def |-> def]

Render(piece, delimiters) ==
  IF ~piece.tok THEN piece.text
  ELSE Unescape(FirstDelimiter(delimiters))
         \o (IF piece.type # <<>> THEN piece.type \o <<":">> ELSE <<>>)
         \o piece.path
         \o (IF piece.def # <<>> THEN <<" ", "|", "|", " ">> \o piece.def
             ELSE <<>>)
         \o Unescape(LastDelimiter(delimiters))

TextOf(ps, delimiters) ==
  Join([i \in 1..Len(ps) |-> Render(ps[i], delimiters)], <<>>)

PathX == <<"x">>
PathY == <<"y">>
PathAB == <<"a", ".", "b">>

SquareBrackets == << <<"\\", "[">>, <<"\\", "]">> >>

DefaultOptions == [delimiters |-> <<>>, allowMissing |-> FALSE]
AllowMissing == [delimiters |-> <<>>, allowMissing |-> TRUE]
CustomOptions == [delimiters |-> SquareBrackets, allowMissing |-> FALSE]

StrJ == Str(<<"J">>)
StrK == Str(<<"K">>)

Numbers == {0 - MaxNumber, 0, MaxNumber, 10 * MaxNumber + 3}

\* the values a path of the data may hold
Values ==
  {Str(<<>>), StrJ, Str(<<"a", " ", "b">>), Str(<<"5">>), Str(<<"$", "&">>),
   Bool(TRUE), Bool(FALSE), Null,
   Obj(<<"k">> :> StrJ), EmptyObject, Arr(<<Num(1), Num(2)>>), Arr(<<>>)}
    \cup {Num(n) : n \in Numbers}

\* the data that hold v at the path, as _.set builds them
DataAt(path, v) ==
  IF path = PathAB THEN Obj(<<"a">> :> Obj(<<"b">> :> v)) ELSE Obj(path :> v)

\* the data that hold vx at x and vy at y (Undef: the key is absent)
DataXY(vx, vy) ==
  Obj([k \in {p \in {PathX, PathY} :
                Kind(IF p = PathX THEN vx ELSE vy) # "undef"} |->
         IF k = PathX THEN vx ELSE vy])

DefaultJ == <<"\"", "J", "\"">>
Default6 == <<"6">>
DefaultTrue == <<"t", "r", "u", "e">>
DefaultArray == <<"[", " ", "1", ",", " ", "2", " ", "]">>
DefaultObject == <<"{", "}">>

PlainTokens ==
  {Tok(<<>>, PathX, <<>>), Tok(<<>>, PathAB, <<>>), Tok(TypeNumber, PathX, <<>>),
   Tok(TypeString, PathX, <<>>), Tok(TypeObject, PathX, <<>>)}

DefaultTokens ==
  {Tok(<<>>, PathX, d) :
     d \in {DefaultJ, Default6, DefaultTrue, DefaultArray, DefaultObject}}
    \cup {Tok(<<>>, PathAB, DefaultJ)}

Prefixes == {<<>>, <<"F", " ">>}
Suffixes == {<<>>, <<"!">>}

\* a string with one token and literal text before and after it
OneToken(pre, t, post) == <<Lit(pre), t, Lit(post)>>

\* a string of the tokens ts with the text sep between them
RECURSIVE Separated(_, _)
Separated(ts, sep) ==
  IF Len(ts) = 1 THEN <<ts[1]>>
  ELSE <<ts[1], Lit(sep)>> \o Separated(Tail(ts), sep)

SeveralTokens ==
  {Separated(ts, sep) :
     ts \in UNION {[1..n -> {Tok(<<>>, PathX, <<>>), Tok(<<>>, PathY, <<>>)}] :
                     n \in 2..MaxTokens},
     sep \in {<<>>, <<" ">>}}

\* the calls on a string with one of the tokens, under one of the options
OneTokenInputs(tokens, opts) ==
  UNION {{[parts |-> OneToken(pre, t, post), data |-> d, options |-> o] :
            pre \in Prefixes, post \in Suffixes,
            d \in {EmptyObject} \cup {DataAt(t.path, v) : v \in Values},
            o \in opts} : t \in tokens}

InterpolateInputs ==
  OneTokenInputs(PlainTokens \cup DefaultTokens, {DefaultOptions, AllowMissing})
    \cup
  OneTokenInputs({Tok(<<>>, PathX, <<>>), Tok(TypeNumber, PathX, <<>>)},
                 {CustomOptions})
    \cup
  {[parts |-> ps, data |-> DataXY(vx, vy), options |-> o] :
     ps \in SeveralTokens,
     vx \in {Undef, StrJ, Num(MaxNumber), Str(<<"{", "{", "y", "}", "}">>),
             Str(<<"$", "&">>)},
     vy \in {Undef, StrK, Str(<<"a", " ", "b">>)},
     o \in {DefaultOptions, AllowMissing}}

\* the results deinterpolate is called with
Results ==
  {Undef, Str(<<>>), StrJ, Str(<<"F", " ", "J">>), Str(<<"J", "!">>),
   Str(<<"F", " ", "J", "!">>), Num(6), Str(<<"F", " ", "6">>), Bool(TRUE),
   Str(<<"F", " ", "t", "r", "u", "e">>), Arr(<<Num(1), Num(2)>>),
   EmptyObject, Str(<<"F", " ">>), Str(<<"J", "!", "J">>), Str(<<"[", "J">>)}

\* strings without a token, and a string whose text opens a character class
\* in a RegExp
PlainTexts ==
  {<<Lit(<<"F">>)>>, <<Lit(<<"[">>)>>,
   OneToken(<<"[">>, Tok(<<>>, PathX, <<>>), <<>>)}

DeinterpolateInputs ==
  {[parts |-> OneToken(pre, t, post), data |-> r, options |-> DefaultOptions] :
     pre \in Prefixes, post \in Suffixes, t \in PlainTokens \cup DefaultTokens,
     r \in Results}
    \cup
  {[parts |-> ps, data |-> r, options |-> DefaultOptions] :
     ps \in PlainTexts \cup SeveralTokens, r \in Results}

\* the template trees: a shape and the strings at its leaves
KeyNames == << <<"a">>, <<"b">>, <<"c">>, <<"d">> >>

Leaves ==
  {<<Tok(<<>>, PathX, <<>>)>>, <<Lit(<<"F", " ">>), Tok(<<>>, PathX, <<>>)>>,
   <<Tok(<<>>, PathY, <<>>)>>, <<Tok(TypeNumber, PathX, <<>>)>>,
   <<Lit(<<"F">>)>>}

\* the object with the values vs at the first keys (Undef: the key is absent)
FlatObject(vs) ==
  Obj([k \in {KeyNames[i] : i \in {j \in 1..Len(vs) : Kind(vs[j]) # "undef"}} |->
         vs[CHOOSE i \in 1..Len(vs) : KeyNames[i] = k]])

TreeOf(shape, vs) ==
  CASE shape = "flat" -> FlatObject(vs)
    [] shape = "nested" -> Obj(<<"a">> :> Obj(<<"b">> :> vs[1]))
    [] shape = "arrmap" -> Obj(<<"a">> :> Arr(<<Obj(<<"b">> :> vs[1])>>))
    [] shape = "arrstr" -> Obj(<<"a">> :> Arr(<<vs[1]>>))
    [] shape = "literal" ->
         Obj(<<"a">> :> vs[1] @@ <<"b">> :> Num(MaxNumber)
               @@ <<"c">> :> Bool(FALSE) @@ <<"d">> :> Null)
    [] shape = "arrlit" ->
         Obj(<<"a">> :> Arr(<<Num(MaxNumber), Bool(TRUE), Null>>)
               @@ <<"b">> :> vs[1])

TemplateOf(tree, delimiters) ==
  TreeOf(tree.shape,
         [i \in 1..Len(tree.leaves) |-> Str(TextOf(tree.leaves[i], delimiters))])

FlatTrees ==
  {[shape |-> "flat", leaves |-> ls] :
     ls \in UNION {[1..n -> Leaves] : n \in 1..MaxLeaves}}

Trees ==
  FlatTrees \cup
  {[shape |-> sh, leaves |-> <<l>>] :
     sh \in {"nested", "arrmap", "arrstr", "literal", "arrlit"}, l \in Leaves}

CompileInputs ==
  {[parts |-> t, data |-> DataXY(vx, vy), options |-> o] :
     t \in Trees,
     vx \in {Undef, StrJ, Str(<<>>), Num(MaxNumber), Str(<<"5">>)},
     vy \in {Undef, StrK},
     o \in {DefaultOptions, AllowMissing, CustomOptions}}

\* the objects decompile and matches are called with
\* pairs of structured values: two objects, two arrays, an object and an
\* array
Structured ==
  {<<Obj(<<"k">> :> StrJ), Obj(<<"m">> :> StrK)>>,
   <<Arr(<<Num(1), Num(2)>>), Arr(<<Num(MaxNumber)>>)>>,
   <<Obj(<<"k">> :> StrJ), Arr(<<Num(MaxNumber)>>)>>}

ObjectInputs ==
  {[parts |-> t, data |-> FlatObject(<<va, vb>>), options |-> DefaultOptions] :
     t \in FlatTrees,
     va \in {Undef, StrJ, Num(MaxNumber), Str(<<"F", " ", "J">>)},
     vb \in {Undef, StrJ, Num(MaxNumber), Str(<<"F", " ", "J">>)}}
    \cup
  {[parts |-> t, data |-> FlatObject(vs), options |-> DefaultOptions] :
     t \in FlatTrees, vs \in Structured}

Init ==
  /\ pc = "idle"
  /\ call = "none"
  /\ template = None
  /\ parts = None
  /\ input = None
  /\ options = DefaultOptions
  /\ out = None
  /\ back = None
  /\ passed = None

\* string.interpolate(template, data, options)
Interpolate ==
  /\ pc = "idle"
  /\ \E c \in InterpolateInputs :
       LET text == TextOf(c.parts, c.options.delimiters)
       IN /\ template' = Str(text)
          /\ parts' = c.parts
          /\ input' = c.data
          /\ options' = c.options
          /\ out' = interpolate(text, c.data, c.options)
          /\ passed' = Passed(Str(text), c.data, c.options)
  /\ call' = "interpolate"
  /\ pc' = "called"
  /\ back' = None

\* string.deinterpolate(template, result, options)
Deinterpolate ==
  /\ pc = "idle"
  /\ \E c \in DeinterpolateInputs :
       LET text == TextOf(c.parts, c.options.delimiters)
       IN /\ template' = Str(text)
          /\ parts' = c.parts
          /\ input' = c.data
          /\ options' = c.options
          /\ out' = deinterpolate(text, c.data, c.options)
          /\ passed' = Passed(Str(text), c.data, c.options)
  /\ call' = "deinterpolate"
  /\ pc' = "called"
  /\ back' = None

\* string.deinterpolate(template, string.interpolate(template, data))
DeinterpolateResult ==
  /\ pc = "called"
  /\ call = "interpolate"
  /\ ~IsErr(out)
  /\ back' = deinterpolate(passed.template[2], out,
                           [delimiters |-> passed.options.delimiters,
                            allowMissing |-> FALSE])
  /\ passed' = Passed(passed.template, out, passed.options)
  /\ call' = "deinterpolate"
  /\ pc' = "returned"
  /\ UNCHANGED <<template, parts, input, options, out>>

\* compile(template, data, options)
Compile ==
  /\ pc = "idle"
  /\ \E c \in CompileInputs :
       /\ template' = TemplateOf(c.parts, c.options.delimiters)
       /\ parts' = c.parts
       /\ input' = c.data
       /\ options' = c.options
       /\ out' = compile(TemplateOf(c.parts, c.options.delimiters), c.data,
                         c.options)
       /\ passed' = Passed(TemplateOf(c.parts, c.options.delimiters), c.data,
                           c.options)
  /\ call' = "compile"
  /\ pc' = "called"
  /\ back' = None

\* decompile(template, result, options)
Decompile ==
  /\ pc = "idle"
  /\ \E c \in ObjectInputs :
       /\ template' = TemplateOf(c.parts, c.options.delimiters)
       /\ parts' = c.parts
       /\ input' = c.data
       /\ options' = c.options
       /\ out' = decompile(TemplateOf(c.parts, c.options.delimiters), c.data,
                           c.options)
       /\ passed' = Passed(TemplateOf(c.parts, c.options.delimiters),
                           ObjectAfter(TemplateOf(c.parts, c.options.delimiters),
                                       c.data, c.options),
                           c.options)
  /\ call' = "decompile"
  /\ pc' = "called"
  /\ back' = None

\* matches(template, object, options); back is the data it decompiles
Matches ==
  /\ pc = "idle"
  /\ \E c \in ObjectInputs :
       /\ template' = TemplateOf(c.parts, c.options.delimiters)
       /\ parts' = c.parts
       /\ input' = c.data
       /\ options' = c.options
       /\ out' = matches(TemplateOf(c.parts, c.options.delimiters), c.data,
                         c.options)
       /\ back' = decompile(TemplateOf(c.parts, c.options.delimiters), c.data,
                            NoOptions)
       /\ passed' = Passed(TemplateOf(c.parts, c.options.delimiters),
                           ObjectAfter(TemplateOf(c.parts, c.options.delimiters),
                                       c.data, NoOptions),
                           c.options)
  /\ call' = "matches"
  /\ pc' = "called"

\* decompile(template, compile(template, data, options), options)
DecompileResult ==
  /\ pc = "called"
  /\ call = "compile"
  /\ ~IsErr(out)
  /\ back' = decompile(passed.template, out, passed.options)
  /\ passed' = Passed(passed.template,
                      ObjectAfter(passed.template, out, passed.options),
                      passed.options)
  /\ call' = "decompile"
  /\ pc' = "returned"
  /\ UNCHANGED <<template, parts, input, options, out>>

\* matches(template, compile(template, data, options), options)
MatchesResult ==
  /\ pc = "called"
  /\ call = "compile"
  /\ ~IsErr(out)
  /\ back' = matches(passed.template, out, passed.options)
  /\ passed' = Passed(passed.template,
                      ObjectAfter(passed.template, out, NoOptions),
                      passed.options)
  /\ call' = "matches"
  /\ pc' = "returned"
  /\ UNCHANGED <<template, parts, input, options, out>>

Next ==
  \/ Interpolate
  \/ Deinterpolate
  \/ DeinterpolateResult
  \/ Compile
  \/ Decompile
  \/ Matches
  \/ DecompileResult
  \/ MatchesResult

Spec == Init /\ [][Next]_vars

----------------------------------------------------------------------------
(* What a call was made of, read off the pieces the template was drawn     *)
(* from.                                                                   *)

\* the result of a compilation was decompiled: of a string, of a tree
StringRoundTrip == pc = "returned" /\ call = "deinterpolate"
TreeRoundTrip == pc = "returned" /\ call = "decompile"

\* interpolate has returned or thrown, and nothing was called after it
InterpolateCalled == pc = "called" /\ call = "interpolate"

\* the value the data hold at a path drawn, Undef if they hold none
ValueAt(data, path) ==
  IF path = PathAB
  THEN IF <<"a">> \in DOMAIN data[2] THEN data[2][<<"a">>][2][<<"b">>] ELSE Undef
  ELSE IF path \in DOMAIN data[2] THEN data[2][path] ELSE Undef

Present(data, path) == Kind(ValueAt(data, path)) \notin {"undef", "null"}

TokenIndices(ps) == {i \in 1..Len(ps) : ps[i].tok}

\* the string is one token and nothing else
WholeToken(ps) ==
  /\ Cardinality(TokenIndices(ps)) = 1
  /\ \A i \in 1..Len(ps) : ~ps[i].tok => ps[i].text = <<>>

TheToken(ps) == ps[CHOOSE i \in TokenIndices(ps) : TRUE]

NoDefaults(ps) == \A i \in TokenIndices(ps) : ps[i].def = <<>>

AllPresent(ps, data) == \A i \in TokenIndices(ps) : Present(data, ps[i].path)

FirstMissing(ps, data) ==
  ps[CHOOSE i \in TokenIndices(ps) :
       /\ ~Present(data, ps[i].path)
       /\ \A j \in TokenIndices(ps) : j < i => Present(data, ps[j].path)]

IsMissingError(v) == IsErr(v) /\ v[2] = MissingVariable

\* C4: without default clauses and without allowMissing, interpolate throws
\* 'Missing variable <expression>' exactly when the path of some token is
\* undefined or null in the data, and names the expression of the first
\* such token; 0, false and the empty string are not missing.
C4_MissingVariable ==
  (/\ InterpolateCalled
   /\ NoDefaults(parts)
   /\ ~options.allowMissing)
  => IF AllPresent(parts, input) THEN ~IsMissingError(out)
     ELSE out = Err(MissingVariable, FirstMissing(parts, input).path)

\* the token a.b was interpolated against data without it
C4_Witness ==
  /\ InterpolateCalled
  /\ ~options.allowMissing
  /\ \E i \in TokenIndices(parts) : parts[i].path = PathAB /\ parts[i].def = <<>>
  /\ input = EmptyObject
  /\ out = Err(MissingVariable, PathAB)

\* a value as it is written into a string: a string as it is, anything else
\* as its JSON text
Coerced(v) == IF Kind(v) = "str" THEN v[2] ELSE JsonText(v)

\* the literal text of the pieces with each token replaced by its value
Filled(ps, data) ==
  Join([i \in 1..Len(ps) |->
          IF ps[i].tok THEN Coerced(ValueAt(data, ps[i].path)) ELSE ps[i].text],
       <<>>)

\* C3: a string with several tokens, or with literal text around a token,
\* whose tokens all resolve, interpolates to the string of its literal text
\* and the coerced values, whatever the types of the tokens.
C3_Stringified ==
  (/\ InterpolateCalled
   /\ ~WholeToken(parts)
   /\ NoDefaults(parts)
   /\ AllPresent(parts, input))
  => out = Str(Filled(parts, input))

\* C5: with allowMissing, a string with a token that does not resolve is
\* returned as it was given, whatever the number of its tokens.
C5_PassThrough ==
  (/\ InterpolateCalled
   /\ options.allowMissing
   /\ NoDefaults(parts)
   /\ ~AllPresent(parts, input))
  => out = template

CompileCalled == pc = "called" /\ call = "compile"

\* C6: compile with allowMissing does not throw 'Missing variable'.
C6_CompileAllowsMissing ==
  (CompileCalled /\ options.allowMissing) => ~IsMissingError(out)

\* the value a default clause drawn is the JSON of
DefaultValue(def) ==
  CASE def = DefaultJ -> StrJ
    [] def = Default6 -> Num(6)
    [] def = DefaultTrue -> Bool(TRUE)
    [] def = DefaultArray -> Arr(<<Num(1), Num(2)>>)
    [] def = DefaultObject -> EmptyObject

\* the value a token with a default clause stands for
ValueOrDefault(data, t) ==
  IF Present(data, t.path) THEN ValueAt(data, t.path) ELSE DefaultValue(t.def)

\* C7: a token 'path || default' takes the parsed default when its path is
\* undefined or null and the value at the path otherwise: the value itself
\* when the token is the whole string, its coerced text inside other text.
C7_DefaultOnCompile ==
  (/\ InterpolateCalled
   /\ Cardinality(TokenIndices(parts)) = 1
   /\ ~NoDefaults(parts))
  => out = IF WholeToken(parts) THEN ValueOrDefault(input, TheToken(parts))
           ELSE Str(parts[1].text
                      \o Coerced(ValueOrDefault(input, TheToken(parts)))
                      \o parts[3].text)

DeinterpolateCalled == pc = "called" /\ call = "deinterpolate"

\* C8: deinterpolate of a result made from the default of a token gives the
\* parsed default at the path of the token: when the token is the whole
\* string and the result equals the default, and when the text captured
\* inside other text is the text of the default.
C8_DefaultOnDecompile ==
  (/\ DeinterpolateCalled
   /\ ~NoDefaults(parts)
   /\ input = IF WholeToken(parts) THEN DefaultValue(TheToken(parts).def)
              ELSE Str(parts[1].text
                         \o StringOf(DefaultValue(TheToken(parts).def))
                         \o parts[3].text))
  => out = DataAt(TheToken(parts).path, DefaultValue(TheToken(parts).def))

\* matches was called with the outcome of a compilation
MatchesCompilation == pc = "returned" /\ call = "matches"

\* the tokens of all the leaves of a tree
TreeTokens(tree) ==
  UNION {{tree.leaves[i][j] : j \in TokenIndices(tree.leaves[i])} :
           i \in 1..Len(tree.leaves)}

\* C9: matches(T, compile(T, D, O), O) is true when D holds every path of T.
C9_MatchesCompilation ==
  (/\ MatchesCompilation
   /\ \A t \in TreeTokens(parts) : Present(input, t.path))
  => back = Bool(TRUE)

MatchesCalled == pc = "called" /\ call = "matches"

\* C10: matches throws what its decompile throws; when the compilation of
\* the decompiled data throws 'Missing variable' it returns false, when it
\* throws anything else matches throws that, and when it returns, matches
\* returns whether it equals the object.
C10_MatchesErrors ==
  MatchesCalled
  => IF IsErr(back) THEN out = back
     ELSE IF IsMissingError(compile(template, back, options))
     THEN out = Bool(FALSE)
     ELSE IF IsErr(compile(template, back, options))
     THEN out = compile(template, back, options)
     ELSE out = Bool(compile(template, back, options) = input)

\* matches has thrown the 'Can't convert' of the compilation of data that
\* decompile returned
C10_Witness ==
  /\ MatchesCalled
  /\ ~IsErr(back)
  /\ IsErr(out)
  /\ out[2] = CantConvert

\* the tokens of the template of a round trip
RoundTripTokens ==
  IF StringRoundTrip THEN {parts[i] : i \in TokenIndices(parts)}
  ELSE TreeTokens(parts)

\* the paths at which the data hold a present value
PresentPaths(data) == {p \in {PathX, PathY, PathAB} : Present(data, p)}

\* the data hold the paths of the tokens and nothing else, null neither
ExactData(tokens, data) ==
  /\ PresentPaths(data) = {t.path : t \in tokens}
  /\ \A k \in DOMAIN data[2] : Kind(data[2][k]) # "null"

TokenOrText(ps) == TokenIndices(ps) = {} \/ (WholeToken(ps) /\ NoDefaults(ps))

\* the value has the type the token declares
HasType(type, v) ==
  \/ type = <<>>
  \/ type = TypeNumber /\ Kind(v) = "num"
  \/ type = TypeString /\ Kind(v) = "str"
  \/ type = TypeObject /\ Kind(v) = "obj"

\* the template of a round trip is made of whole tokens: a string that is
\* one token, or a tree of maps, also inside sequences, whose strings are
\* each one token or free of tokens
WholeTokens ==
  IF StringRoundTrip THEN WholeToken(parts) /\ NoDefaults(parts)
  ELSE /\ parts.shape # "arrstr"
       /\ \A i \in 1..Len(parts.leaves) : TokenOrText(parts.leaves[i])

----------------------------------------------------------------------------
(* The tree of a compilation.                                              *)

\* the interpolation of each string the tree was drawn with, under the
\* delimiters of the call
LeafInterpolations ==
  [i \in 1..Len(parts.leaves) |->
     interpolate(TextOf(parts.leaves[i], options.delimiters), input,
                 [delimiters |-> options.delimiters, allowMissing |-> FALSE])]

\* C11: compile returns the tree of the template with each string, as the
\* value of a key or as an element of a sequence, replaced by its
\* interpolation and every number, boolean and null left as it is, when
\* every interpolation succeeds.
C11_CompileMirrors ==
  (/\ CompileCalled
   /\ ~options.allowMissing
   /\ ~IsErr(FirstError(LeafInterpolations)))
  => out = TreeOf(parts.shape, LeafInterpolations)

\* the first keys of the paths drawn
PathKeys(paths) == {IF p = PathAB THEN <<"a">> ELSE p : p \in paths}

\* C12: decompile(T, compile(T, D)) holds a value at every path that a
\* token of T refers to, in a value of a key, in a nested map and in a
\* string or a map that is an element of a sequence, and holds nothing else.
C12_ReferencedPaths ==
  TreeRoundTrip
  => /\ ~IsErr(back)
     /\ PresentPaths(back) = {t.path : t \in TreeTokens(parts)}
     /\ DOMAIN back[2] = PathKeys({t.path : t \in TreeTokens(parts)})

----------------------------------------------------------------------------
(* The casts. *)

\* the text is a decimal numeral
IsNumeral(t) ==
  LET s == IF t # <<>> /\ t[1] = "-" THEN 2 ELSE 1
  IN s <= Len(t) /\ \A i \in s..Len(t) : t[i] \in Digits

\* the value is a number, or a string that is the text of one
IsNumber(v) == Kind(v) = "num" \/ (Kind(v) = "str" /\ IsNumeral(v[2]))

IsCoercionError(r) == IsErr(r) /\ r[2] = CantConvert

\* r is the outcome that the cast of v to the type is stated to have
Cast(type, v, r) ==
  CASE type = <<>> -> r = v
    [] type = TypeNumber ->
         IF IsNumber(v) THEN r = ParseFloat(v) ELSE IsCoercionError(r)
    [] type = TypeObject ->
         IF Kind(v) \in {"obj", "arr"} THEN r = v
         ELSE IF IsErr(JsonParse(v)) THEN IsCoercionError(r)
         ELSE r = JsonParse(v)
    [] type = TypeString ->
         IF Kind(v) = "str" THEN r = v ELSE r = Str(JsonText(v))

\* a string that is one token, without default clause, was interpolated
\* with a present value at its path: the outcome is the cast of the value
CastCalled ==
  /\ InterpolateCalled
  /\ WholeToken(parts)
  /\ NoDefaults(parts)
  /\ Present(input, TheToken(parts).path)

\* C13: the cast of a value is the value itself without a type; for number
\* the number parsed, and the error 'Can't convert' when the value is not a
\* number; for object a plain object or an array as it is, else the JSON
\* parsed, and the error 'Can't convert' when the JSON is malformed; for
\* string a string as it is, else the JSON text.
C13_Cast ==
  CastCalled
  => Cast(TheToken(parts).type, ValueAt(input, TheToken(parts).path), out)

----------------------------------------------------------------------------
(* Strings of several tokens. *)

\* no value of the tokens has a dollar sign, which String.replace reads as
\* the start of a replacement pattern
NoPatterns(ps, data) ==
  \A i \in TokenIndices(ps) :
    \A j \in 1..Len(Coerced(ValueAt(data, ps[i].path))) :
      Coerced(ValueAt(data, ps[i].path))[j] # "$"

\* C14: a string of several tokens that all resolve interpolates to its
\* literal text with each occurrence of a token replaced, where it stands,
\* by the coerced value of its path, also when a token occurs twice and
\* when a value holds the text of a later token.
C14_Positional ==
  (/\ InterpolateCalled
   /\ Cardinality(TokenIndices(parts)) >= 2
   /\ AllPresent(parts, input)
   /\ NoPatterns(parts, input))
  => out = Str(Filled(parts, input))

----------------------------------------------------------------------------
(* Results that do not fit the template. *)

\* the result is the literal text of the string with a text that is not
\* empty in the place of its one token
Fits(ps, result) ==
  /\ Kind(result) = "str"
  /\ Len(result[2]) > Len(ps[1].text) + Len(ps[3].text)
  /\ StartsWithAt(result[2], 1, ps[1].text)
  /\ StartsWithAt(result[2], Len(result[2]) - Len(ps[3].text) + 1, ps[3].text)

\* C15: for a string of one token inside literal text, deinterpolate throws
\* 'No match for <expression>' when the result does not fit the text, and
\* throws nothing when it fits and the token has no type; for a string
\* without a token it returns the empty data whatever the result is.
C15_NoMatch ==
  (DeinterpolateCalled /\ NoDefaults(parts))
  => IF TokenIndices(parts) = {} THEN out = EmptyObject
     ELSE IF WholeToken(parts) \/ Cardinality(TokenIndices(parts)) > 1 THEN TRUE
     ELSE IF Fits(parts, input) THEN TheToken(parts).type = <<>> => ~IsErr(out)
     ELSE out = Err(NoMatchFor, TheToken(parts).path)

----------------------------------------------------------------------------
(* Paths produced more than once. *)

DecompileCalled == pc = "called" /\ call = "decompile"

\* the ways to cut a text into n texts, none empty, with sep between them
RECURSIVE Cuts(_, _, _)
Cuts(text, n, sep) ==
  IF n = 1 THEN IF text = <<>> THEN {} ELSE {<<text>>}
  ELSE UNION {{<<SubSeq(text, 1, k)>> \o rest :
                 rest \in Cuts(SubSeq(text, k + Len(sep) + 1, Len(text)),
                               n - 1, sep)} :
              k \in {j \in 1..(Len(text) - Len(sep)) :
                       StartsWithAt(text, j + 1, sep)}}

\* the tokens of a string, in its order
TokensOf(ps) == [i \in 1..((Len(ps) + 1) \div 2) |-> ps[2 * i - 1]]

\* the last of the tokens that has the path
LastWith(ts, path) ==
  CHOOSE i \in 1..Len(ts) :
    ts[i].path = path /\ \A j \in (i + 1)..Len(ts) : ts[j].path # path

\* the data hold, at the path of each token, the text of the last token
\* with that path
LastCaptures(ts, cs, data) ==
  /\ DOMAIN data[2] = {ts[i].path : i \in 1..Len(ts)}
  /\ \A i \in 1..Len(ts) : data[2][ts[i].path] = Str(cs[LastWith(ts, ts[i].path)])

\* the data that deinterpolate gives for each string of a flat tree
Fragments ==
  [i \in 1..Len(parts.leaves) |->
     deinterpolate(TextOf(parts.leaves[i], options.delimiters),
                   Get(input, KeyNames[i]),
                   [delimiters |-> options.delimiters, allowMissing |-> FALSE])]

\* the last of the fragments that holds the key
LastHolding(fs, key) ==
  CHOOSE i \in 1..Len(fs) :
    key \in DOMAIN fs[i][2] /\ \A j \in (i + 1)..Len(fs) : key \notin DOMAIN fs[j][2]

\* the data hold every key of the fragments, each with the value of the
\* last fragment that holds it
LastWins(fs, data) ==
  /\ DOMAIN data[2] = UNION {DOMAIN fs[i][2] : i \in 1..Len(fs)}
  /\ \A k \in DOMAIN data[2] : data[2][k] = fs[LastHolding(fs, k)][2][k]

\* C16: when several tokens of one string, or the strings of several keys
\* of a template, give a value for the same path, the data returned hold
\* at that path the value given last and nothing of the earlier ones,
\* whatever the values are; values for different paths are all held.  The
\* object decompiled has a value for every key of the template.
C16_LastWins ==
  /\ (DeinterpolateCalled /\ Cardinality(TokenIndices(parts)) > 1 /\ ~IsErr(out))
     => \E cs \in Cuts(StringOf(input), Len(TokensOf(parts)), parts[2].text) :
          LastCaptures(TokensOf(parts), cs, out)
  /\ (/\ DecompileCalled
      /\ \A i \in 1..Len(parts.leaves) : ~IsMissing(Get(input, KeyNames[i]))
      /\ ~IsErr(FirstError(Fragments)))
     => (~IsErr(out) /\ LastWins(Fragments, out))

----------------------------------------------------------------------------
(* What a call leaves of its arguments. *)

\* the object of the last call: the outcome of the call before it when
\* that was passed on, else the data or the object drawn
ObjectPassed == IF pc = "returned" THEN out ELSE input

====
